---- MODULE Spec2Model ----
(***************************************************************************)
(* Model of the anonymous-vote command of AgileMate (the poll file of      *)
(* src/unnamed/part_000, lines 513-825) and of its standup command (the    *)
(* standup file of src/unnamed/part_000, lines 1-512) with the Convex      *)
(* mutations it stores its data with (src/convex/standupFunctions.ts).     *)
(*                                                                         *)
(* The program is a single-threaded JavaScript process: a handler runs     *)
(* without interruption from one `await` to the next, and any other        *)
(* handler may run while it is suspended.  Each action below is one such   *)
(* uninterrupted run: the start of a handler up to its first await, or the *)
(* resumption of a suspended handler up to its next await or its end.      *)
(* Calls to the chat platform (reply, edit, members.fetch) either resolve  *)
(* or reject; a rejection that the handler does not catch ends the handler *)
(* at that line ("faulted").                                               *)
(***************************************************************************)
EXTENDS Integers, Sequences, FiniteSets, TLC

VARIABLES
    activePolls,  \* guild -> identity of its bucket (inner Map), or NoBucket
    buckets,      \* bucket identity -> poll ids held by that inner Map
    polls,        \* poll id -> the poll data object (lives on in closures)
    execs,        \* /vote invocations suspended at members.fetch()
    voteTasks,    \* button-click handlers suspended at an await
    endTasks,     \* /endpoll invocations suspended inside endPoll
    timerTasks,   \* poll id -> the deadline callback's endPoll invocation
    published,    \* poll id -> results posted by message.reply, in order
    acked,        \* poll id -> the votes acknowledged to their voters
    used,         \* how many invocations and platform failures have happened
    standupUsers,    \* the standupUsers table: <<guildId, userId>> rows
    scheduledJobs,   \* keys of the scheduledJobs Map: <<guildId, "morning">>, ..
    joinTasks,       \* /standup join handlers suspended at an await
    leaveTasks,      \* /standup leave handlers suspended at an await
    dmTasks,         \* "Provide Update" click handlers suspended at an await
    submitted,       \* the calls of submitStandupResponse, in order
    standupUsed,     \* how many standup handlers were started
    db,              \* the Convex tables: their documents, by table
    dbUsed,          \* how many mutations the backend has executed
    last          \* the handler run that led to this state, and its outcome

pollVars == <<activePolls, buckets, polls, execs, voteTasks, endTasks,
              timerTasks, published, acked, used>>

convexVars == <<db, dbUsed>>

standupVars == <<standupUsers, scheduledJobs, joinTasks, leaveTasks, dmTasks,
                 submitted, standupUsed, db, dbUsed>>

vars == <<activePolls, buckets, polls, execs, voteTasks, endTasks, timerTasks,
          published, acked, used, standupUsers, scheduledJobs, joinTasks,
          leaveTasks, dmTasks, submitted, standupUsed, db, dbUsed, last>>

----------------------------------------------------------------------------
(* Bounds of the model. *)

MaxCalls == 3    \* user interactions: /vote, button click, /endpoll
MaxPolls == 2    \* /vote invocations
MaxVotes == 2    \* button clicks
MaxEnds == 2     \* /endpoll invocations
MaxFaults == 1   \* platform calls that reject
MaxJoins == 2    \* /standup join invocations
MaxLeaves == 2   \* /standup leave invocations
MaxRuns == 2     \* clicks on "Provide Update"
MaxMutations == 3   \* mutations sent to the backend directly

Guilds == {"g1", "g2"}

\* Guild members: u1 and u2 can view the channel, u3 cannot, bot is a bot.
Voters == {"u1", "u2", "u3"}
Viewers == {"u1", "u2", "bot"}
IsBot(m) == m = "bot"

\* What guild.members.fetch() may resolve to.
MemberSnapshots == {{"u1", "u3", "bot"}, {"u1", "u2", "u3", "bot"}}

\* Line 549: at most five options, one button each.
MaxOptions == 5

\* The option lists a /vote may carry (after split(',') and trim).
OptionLists == {<<"A", "B">>}

\* Where the command is used: a guild text channel, a direct message, or no
\* channel at all (interaction.channel is null).
Channels == {"text", "dm", "none"}

\* The `duration` option of a /vote, in minutes.
Durations == {1}

NoBucket == 0
NoPoll == 0

----------------------------------------------------------------------------
(* JavaScript Map<string, number>, kept as its insertion-ordered entries.  *)

MapHas(m, k) == \E j \in 1..Len(m) : m[j][1] = k

MapGet(m, k) == m[CHOOSE j \in 1..Len(m) : m[j][1] = k][2]

MapSize(m) == Len(m)

MapKeys(m) == {m[j][1] : j \in 1..Len(m)}

\* A set that always adds an entry (a list push in place of Map.set).
MapSetAlwaysAppends(m, k, v) == Append(m, <<k, v>>)

\* A set that leaves an existing key's value alone (first write wins).
MapSetKeepsFirst(m, k, v) == IF MapHas(m, k) THEN m ELSE Append(m, <<k, v>>)

\* Map.prototype.set: an existing key keeps its place and gets the new value.
MapSet(m, k, v) ==
    IF MapHas(m, k)
    THEN [j \in 1..Len(m) |-> IF m[j][1] = k THEN <<k, v>> ELSE m[j]]
    ELSE Append(m, <<k, v>>)

----------------------------------------------------------------------------
(* Result compilation (endPoll, lines 692-722). *)

\* A tally that passes over the first entry of the ledger.
CountVotesSkipsFirst(votes, voteCounts) ==
    LET rest == IF votes = <<>> THEN <<>> ELSE Tail(votes) IN
    [i \in 1..Len(voteCounts) |->
        voteCounts[i] + Cardinality({j \in 1..Len(rest) : rest[j][2] + 1 = i})]

RECURSIVE CountVotes(_, _)
CountVotes(votes, voteCounts) ==
    IF votes = <<>> THEN voteCounts
    ELSE CountVotes(Tail(votes),
                    [voteCounts EXCEPT ![Head(votes)[2] + 1] = @ + 1])

VoteCounts(options, votes) ==
    CountVotes(votes, [i \in 1..Len(options) |-> 0])

MaxOf(counts) ==
    CHOOSE x \in {counts[i] : i \in 1..Len(counts)} :
        \A i \in 1..Len(counts) : counts[i] <= x

\* A filter that stops at the first option with the maximum count.
FilterWinnersFirstOnly(options, voteCounts, maxVotes, i) ==
    <<options[CHOOSE j \in 1..Len(options) :
                 /\ voteCounts[j] = maxVotes
                 /\ \A k \in 1..(j - 1) : voteCounts[k] # maxVotes]>>

RECURSIVE FilterWinners(_, _, _, _)
FilterWinners(options, voteCounts, maxVotes, i) ==
    IF i > Len(options) THEN <<>>
    ELSE (IF voteCounts[i] = maxVotes THEN <<options[i]>> ELSE <<>>)
         \o FilterWinners(options, voteCounts, maxVotes, i + 1)

\* A verdict without the test of line 708.
VerdictIgnoresZero(maxVotes, winners) ==
    IF Len(winners) = 1 THEN "winner" ELSE "tie"

\* Lines 708-716: which of the three closing lines is written.
Verdict(maxVotes, winners) ==
    IF maxVotes > 0
    THEN (IF Len(winners) = 1 THEN "winner" ELSE "tie")
    ELSE "noVotes"

\* A participation line written whatever the size of the eligible set.
ParticipationAlways(votes, eligibleVoters) ==
    <<MapSize(votes), Cardinality(eligibleVoters)>>

\* Lines 719-722: the two numbers of the participation line, or nothing.
Participation(votes, eligibleVoters) ==
    IF Cardinality(eligibleVoters) > 0
    THEN <<MapSize(votes), Cardinality(eligibleVoters)>>
    ELSE <<>>

Results(options, votes, eligibleVoters) ==
    LET voteCounts == VoteCounts(options, votes)
        maxVotes == MaxOf(voteCounts)
        winners == FilterWinners(options, voteCounts, maxVotes, 1)
        verdict == Verdict(maxVotes, winners)
    IN [counts |-> voteCounts,
        verdict |-> verdict,
        winners |-> IF verdict = "noVotes" THEN <<>> ELSE winners,
        maxVotes |-> maxVotes,
        participation |-> Participation(votes, eligibleVoters)]

NoResults == [counts |-> <<>>, verdict |-> "none", winners |-> <<>>,
              maxVotes |-> 0, participation |-> <<>>]

----------------------------------------------------------------------------
(* An endPoll invocation, as seen by its caller.                           *)
(*   st: "none"     not called                                             *)
(*       "returned" returned at line 687 (poll not in the store)           *)
(*       "edit"     suspended at `await message.edit` (line 729)           *)
(*       "reply"    suspended at `await message.reply` (line 732)          *)
(*       "done"     ran to its end (line 741)                              *)
(*       "threw"    message.edit or message.reply rejected                 *)
(*   sp: the bucket read at line 686; res: the results built at 692-722.   *)

NoEp == [st |-> "none", sp |-> NoBucket, res |-> NoResults]

\* Lines 686-687: the guard of endPoll.
InStore(pollId, guildId) ==
    /\ activePolls[guildId] # NoBucket
    /\ pollId \in buckets[activePolls[guildId]]

\* Lines 686-729: the part of endPoll that runs before its first await.
EndPollStart(pollId, guildId) ==
    IF ~InStore(pollId, guildId)
    THEN [st |-> "returned", sp |-> activePolls[guildId], res |-> NoResults]
    ELSE [st |-> "edit", sp |-> activePolls[guildId],
          res |-> Results(polls[pollId].options, polls[pollId].votes,
                          polls[pollId].eligibleVoters)]

\* The invocation's next position when the awaited call resolves (ok) or
\* rejects.
EndPollNext(ep, ok) ==
    [ep EXCEPT !.st = IF ~ok THEN "threw"
                      ELSE IF ep.st = "edit" THEN "reply" ELSE "done"]

\* A removal without the clean-up of lines 738-740.
RemovePollKeepsBucket(ep, pollId, guildId) ==
    /\ buckets' = [buckets EXCEPT ![ep.sp] = @ \ {pollId}]
    /\ activePolls' = activePolls

\* A removal that empties the bucket.
RemovePollClearsBucket(ep, pollId, guildId) ==
    /\ buckets' = [buckets EXCEPT ![ep.sp] = {}]
    /\ activePolls' = [activePolls EXCEPT ![guildId] = NoBucket]

\* Lines 735-740: the poll id is deleted from the bucket read at line 686,
\* and when that bucket is then empty the guild's entry is deleted from
\* activePolls.
RemovePoll(ep, pollId, guildId) ==
    /\ buckets' = [buckets EXCEPT ![ep.sp] = @ \ {pollId}]
    /\ activePolls' = IF buckets[ep.sp] \ {pollId} = {}
                      THEN [activePolls EXCEPT ![guildId] = NoBucket]
                      ELSE activePolls

\* Lines 729-741, one resumption of endPoll.  When message.reply has resolved
\* the results are out and the poll is removed.
EndPollResume(ep, pollId, guildId, ok) ==
    IF ep.st = "reply" /\ ok
    THEN /\ published' = [published EXCEPT ![pollId] = Append(@, ep.res)]
         /\ RemovePoll(ep, pollId, guildId)
    ELSE UNCHANGED <<published, buckets, activePolls>>

\* What is kept of an invocation: nothing once it is over.
Pending(ep) == IF ep.st \in {"edit", "reply"} THEN ep ELSE NoEp

\* A clearTimeout that leaves the timer as it is.
ClearTimeoutLeavesArmed(timeout) == timeout

\* clearTimeout: disarms a pending timer, does nothing to one that has fired.
ClearTimeout(timeout) == IF timeout = "armed" THEN "cleared" ELSE timeout

\* How a handler run ends: at an await, by returning, or by an exception
\* nothing in the handler catches.
Fin(pc) == IF pc = "threw" THEN "threw"
           ELSE IF pc \in {"done", "returned"} THEN "returned"
           ELSE "suspended"

Event(op, pollId, userId, out, fin) ==
    [op |-> op, poll |-> pollId, user |-> userId, out |-> out, fin |-> fin]

\* A platform call resolves (ok) or, while the budget of failures lasts,
\* rejects.
MayBe(ok) == ok \/ used.faults < MaxFaults

Count(ok) == IF ok THEN used ELSE [used EXCEPT !.faults = @ + 1]

\* The budget of user interactions is not used up.
MayCall == used.polls + used.votes + used.ends < MaxCalls

Remove(seq, i) == SubSeq(seq, 1, i - 1) \o SubSeq(seq, i + 1, Len(seq))

----------------------------------------------------------------------------
\* Nobody has joined the standup, no job is scheduled (line 10), no handler
\* is running, the tables are empty.
StandupInit ==
    /\ standupUsers = {}
    /\ scheduledJobs = {}
    /\ joinTasks = <<>>
    /\ leaveTasks = <<>>
    /\ dmTasks = <<>>
    /\ submitted = <<>>
    /\ standupUsed = [joins |-> 0, leaves |-> 0, runs |-> 0, faults |-> 0]
    /\ db = [standupUsers |-> {}, standupResponses |-> {}, ids |-> 0]
    /\ dbUsed = [mutations |-> 0]

Init ==
    /\ activePolls = [g \in Guilds |-> NoBucket]
    /\ buckets = <<>>
    /\ polls = <<>>
    /\ execs = <<>>
    /\ voteTasks = <<>>
    /\ endTasks = <<>>
    /\ timerTasks = <<>>
    /\ published = <<>>
    /\ acked = <<>>
    /\ used = [polls |-> 0, votes |-> 0, ends |-> 0, faults |-> 0]
    /\ last = Event("init", NoPoll, "", "", "returned")
    /\ StandupInit

----------------------------------------------------------------------------
(* /vote: execute (lines 540-682). *)

\* A snapshot that does not skip bots (without line 605).
EligibleOfWithBots(members) == {m \in members : m \in Viewers}

\* Lines 603-611: members who are not bots and can view the channel.
EligibleOf(members) == {m \in members : ~IsBot(m) /\ m \in Viewers}

\* Lines 540-601: a request that fails the checks of lines 545-556 is
\* answered and dropped; otherwise the message is sent (its id becomes the
\* poll id), the guild's bucket is created when the guild has none, and the
\* member list is requested.  The duration is not checked anywhere.  The awaited interaction.reply of line 581 touches no state of
\* the program, so the run is taken from its resolution.
\* A validation that does not look at the number of options.
ValidRequestAnyCount(options, channel) == channel = "text"

\* Lines 545-556: the three checks that end execute with a reply only.
ValidRequest(options, channel) ==
    /\ ~(Len(options) < 2)
    /\ ~(Len(options) > MaxOptions)
    /\ channel = "text"

Execute(guildId, options, channel, duration) ==
    /\ MayCall
    /\ used.polls < MaxPolls
    /\ IF ~ValidRequest(options, channel)
       THEN /\ last' = Event("execute", NoPoll, "", "rejected", "returned")
            /\ UNCHANGED <<activePolls, buckets, execs, used>>
       ELSE /\ LET hasBucket == activePolls[guildId] # NoBucket IN
               /\ buckets' = IF hasBucket THEN buckets ELSE Append(buckets, {})
               /\ activePolls' = IF hasBucket THEN activePolls
                                 ELSE [activePolls EXCEPT
                                         ![guildId] = Len(buckets) + 1]
            /\ execs' = Append(execs, [id |-> used.polls + 1,
                                       guild |-> guildId,
                                       options |-> options,
                                       duration |-> duration])
            /\ used' = [used EXCEPT !.polls = @ + 1]
            /\ last' = Event("execute", used.polls + 1, "", "", "suspended")
    /\ UNCHANGED <<polls, voteTasks, endTasks, timerTasks, published, acked>>
    /\ UNCHANGED standupVars

\* The poll data object of lines 619-627, with the bucket and the collector
\* the closures of execute hold.
NewPoll(e, eligibleVoters, serverPolls) ==
    [guild |-> e.guild,
     options |-> e.options,
     duration |-> e.duration,
     votes |-> <<>>,
     eligibleVoters |-> eligibleVoters,
     timeout |-> "armed",
     serverPolls |-> serverPolls,
     collector |-> "running"]

\* Line 618: the bucket the poll is stored in is the one the guild has when
\* members.fetch() has settled.
BucketAtRegister(guildId) == activePolls[guildId]

\* Lines 601-681: members.fetch() resolves with a member list or rejects (the
\* catch of line 612 leaves eligibleVoters empty); then the poll is stored
\* (line 618).  With no bucket, serverPolls is undefined and
\* `serverPolls.set` throws before setTimeout is evaluated.  The awaited
\* followUp of line 678 touches no state and is not a step.
Register(i, ok, members) ==
    /\ i \in 1..Len(execs)
    /\ MayBe(ok)
    /\ LET e == execs[i]
           serverPolls == BucketAtRegister(e.guild)
           eligibleVoters == IF ok THEN EligibleOf(members) ELSE {}
       IN IF serverPolls = NoBucket
          THEN /\ last' = Event("register", e.id, "", "error", "threw")
               /\ UNCHANGED <<buckets, polls, timerTasks, published, acked>>
          ELSE /\ last' = Event("register", e.id, "", "created", "returned")
               /\ buckets' = [buckets EXCEPT ![serverPolls] = @ \cup {e.id}]
               /\ polls' = [q \in DOMAIN polls \cup {e.id} |->
                             IF q = e.id
                             THEN NewPoll(e, eligibleVoters, serverPolls)
                             ELSE polls[q]]
               /\ timerTasks' = [q \in DOMAIN timerTasks \cup {e.id} |->
                                  IF q = e.id THEN NoEp ELSE timerTasks[q]]
               /\ published' = [q \in DOMAIN published \cup {e.id} |->
                                 IF q = e.id THEN <<>> ELSE published[q]]
               /\ acked' = [q \in DOMAIN acked \cup {e.id} |->
                             IF q = e.id THEN {} ELSE acked[q]]
    /\ execs' = Remove(execs, i)
    /\ used' = Count(ok)
    /\ UNCHANGED <<activePolls, voteTasks, endTasks>>
    /\ UNCHANGED standupVars

----------------------------------------------------------------------------
(* The deadline timer (lines 624-626). *)

\* The deadline callback runs endPoll up to its first await.  The collector's
\* own timer (`time: duration`, line 632) was set in the same run with the
\* same delay right after the deadline timer, so the two run back to back
\* with no platform event handled in between: the collector ends here too.
TimerFire(pollId) ==
    /\ pollId \in DOMAIN polls
    /\ polls[pollId].timeout = "armed"
    /\ LET ep == EndPollStart(pollId, polls[pollId].guild) IN
       /\ timerTasks' = [timerTasks EXCEPT ![pollId] = Pending(ep)]
       /\ last' = Event("timer", pollId, "", "", Fin(ep.st))
    /\ polls' = [polls EXCEPT ![pollId].timeout = "fired",
                              ![pollId].collector = "ended"]
    /\ UNCHANGED <<activePolls, buckets, execs, voteTasks, endTasks, published,
                   acked, used>>
    /\ UNCHANGED standupVars

\* The callback's endPoll resumes.  A rejection of message.edit or
\* message.reply leaves the callback's promise rejected.
TimerResume(pollId, ok) ==
    /\ pollId \in DOMAIN timerTasks
    /\ timerTasks[pollId].st \in {"edit", "reply"}
    /\ MayBe(ok)
    /\ LET ep == EndPollNext(timerTasks[pollId], ok) IN
       /\ timerTasks' = [timerTasks EXCEPT ![pollId] = Pending(ep)]
       /\ last' = Event("timerResume", pollId, "",
                        IF ep.st = "done" THEN "results" ELSE "", Fin(ep.st))
    /\ EndPollResume(timerTasks[pollId], pollId, polls[pollId].guild, ok)
    /\ used' = Count(ok)
    /\ UNCHANGED <<polls, execs, voteTasks, endTasks, acked>>
    /\ UNCHANGED standupVars

----------------------------------------------------------------------------
(* The button collector (lines 630-667). *)

\* The handler without the check of line 642.
MayVoteUnchecked(pollData, userId) == TRUE

\* Line 642: the vote is let through when eligibility is not enforced or the
\* user is in the eligible set.
MayVote(pollData, userId) ==
    ~(Cardinality(pollData.eligibleVoters) > 0
      /\ userId \notin pollData.eligibleVoters)

\* Lines 660-661.
EveryoneVoted(pollData) ==
    /\ Cardinality(pollData.eligibleVoters) > 0
    /\ MapSize(pollData.votes) >= Cardinality(pollData.eligibleVoters)

\* Line 639: serverPolls.get(pollId) on the bucket the closure captured at
\* line 618; FALSE stands for undefined.
HasPollData(pollId) == pollId \in buckets[polls[pollId].serverPolls]

\* Buttons numbered from 1, as their labels are.
CustomIdsFromOne(options) == {<<"vote", index + 1>> : index \in 0..(Len(options) - 1)}

\* Lines 566-571: one button per option, with customId `vote_${index}`, here
\* the pair of the two parts around the underscore.
CustomIds(options) == {<<"vote", index>> : index \in 0..(Len(options) - 1)}

\* Line 637: parseInt(customId.split('_')[1]).
ParseOptionIndex(customId) == customId[2]

\* Every customId a button of some poll message can have.
AllCustomIds == {<<"vote", index>> : index \in 0..MaxOptions}

\* Lines 635-657, up to the awaited reply.  When the captured bucket no
\* longer holds the poll, pollData is undefined and line 642 throws a
\* TypeError: nothing is sent to the voter.
Collect(pollId, userId, customId) ==
    /\ MayCall
    /\ used.votes < MaxVotes
    /\ pollId \in DOMAIN polls
    /\ polls[pollId].collector = "running"
    /\ customId \in CustomIds(polls[pollId].options)
    /\ LET pollData == polls[pollId]
           optionIndex == ParseOptionIndex(customId)
           t == [poll |-> pollId, user |-> userId, opt |-> optionIndex,
                 pc |-> "ack", ep |-> NoEp]
       IN IF ~HasPollData(pollId)
          THEN /\ last' = Event("collect", pollId, userId, "", "threw")
               /\ UNCHANGED <<polls, voteTasks>>
          ELSE IF ~MayVote(pollData, userId)
          THEN /\ last' = Event("collect", pollId, userId, "", "suspended")
               /\ voteTasks' = Append(voteTasks, [t EXCEPT !.pc = "reject"])
               /\ UNCHANGED polls
          ELSE /\ last' = Event("collect", pollId, userId, "", "suspended")
               /\ voteTasks' = Append(voteTasks, t)
               /\ polls' = [polls EXCEPT ![pollId].votes =
                                MapSet(@, userId, optionIndex)]
    /\ used' = [used EXCEPT !.votes = @ + 1]
    /\ UNCHANGED <<activePolls, buckets, execs, endTasks, timerTasks, published,
                   acked>>
    /\ UNCHANGED standupVars

\* Lines 643-647: the "no permission" reply resolves or rejects; the handler
\* ends either way.
RejectResume(i, ok) ==
    /\ i \in 1..Len(voteTasks)
    /\ voteTasks[i].pc = "reject"
    /\ MayBe(ok)
    /\ last' = Event("rejectResume", voteTasks[i].poll, voteTasks[i].user,
                     IF ok THEN "notEligible" ELSE "",
                     IF ok THEN "returned" ELSE "threw")
    /\ voteTasks' = Remove(voteTasks, i)
    /\ used' = Count(ok)
    /\ UNCHANGED <<activePolls, buckets, polls, execs, endTasks, timerTasks,
                   published, acked>>
    /\ UNCHANGED standupVars

\* Lines 654-657: the reply "Your vote for options[optionIndex] has been
\* recorded" has reached the voter; it is the latest one the voter has.
Acknowledge(acks, userId, optionIndex) ==
    {a \in acks : a[1] # userId} \cup {<<userId, optionIndex>>}

\* Lines 654-666: the acknowledgement resolves or rejects.  A rejection ends
\* the handler at line 654.  Otherwise, when everyone has voted, the timer is
\* cleared and endPoll is called; collector.stop() follows endPoll's return.
AckResume(i, ok) ==
    /\ i \in 1..Len(voteTasks)
    /\ voteTasks[i].pc = "ack"
    /\ MayBe(ok)
    /\ LET v == voteTasks[i]
           pollData == polls[v.poll]
           ep == EndPollStart(v.poll, pollData.guild)
       IN IF ~ok
          THEN /\ last' = Event("ackResume", v.poll, v.user, "", "threw")
               /\ voteTasks' = Remove(voteTasks, i)
               /\ UNCHANGED polls
          ELSE IF ~EveryoneVoted(pollData)
          THEN /\ last' = Event("ackResume", v.poll, v.user, "recorded",
                                "returned")
               /\ voteTasks' = Remove(voteTasks, i)
               /\ UNCHANGED polls
          ELSE IF ep.st = "returned"
          THEN /\ last' = Event("ackResume", v.poll, v.user, "recorded",
                                "returned")
               /\ voteTasks' = Remove(voteTasks, i)
               /\ polls' = [polls EXCEPT
                              ![v.poll].timeout = ClearTimeout(@),
                              ![v.poll].collector = "ended"]
          ELSE /\ last' = Event("ackResume", v.poll, v.user, "recorded",
                                "suspended")
               /\ voteTasks' = [voteTasks EXCEPT ![i].pc = "end", ![i].ep = ep]
               /\ polls' = [polls EXCEPT ![v.poll].timeout = ClearTimeout(@)]
    /\ used' = Count(ok)
    /\ acked' = IF ok THEN [acked EXCEPT ![voteTasks[i].poll] =
                               Acknowledge(@, voteTasks[i].user,
                                           voteTasks[i].opt)]
                 ELSE acked
    /\ UNCHANGED <<activePolls, buckets, execs, endTasks, timerTasks, published>>
    /\ UNCHANGED standupVars

\* Lines 664-665: the handler's endPoll resumes; when it has run to its end
\* the collector is stopped, when it throws the handler ends at line 664.
VoteEndResume(i, ok) ==
    /\ i \in 1..Len(voteTasks)
    /\ voteTasks[i].pc = "end"
    /\ MayBe(ok)
    /\ LET v == voteTasks[i]
           ep == EndPollNext(v.ep, ok)
       IN /\ last' = Event("voteEndResume", v.poll, v.user,
                           IF ep.st = "done" THEN "results" ELSE "",
                           Fin(ep.st))
          /\ voteTasks' = IF ep.st \in {"done", "threw"}
                          THEN Remove(voteTasks, i)
                          ELSE [voteTasks EXCEPT ![i].ep = ep]
          /\ polls' = IF ep.st = "done"
                      THEN [polls EXCEPT ![v.poll].collector = "ended"]
                      ELSE polls
          /\ EndPollResume(v.ep, v.poll, polls[v.poll].guild, ok)
    /\ used' = Count(ok)
    /\ UNCHANGED <<execs, endTasks, timerTasks, acked>>
    /\ UNCHANGED standupVars

\* The collector's own `time: duration` (line 632) runs out at the deadline
\* when the deadline timer was cleared and collector.stop() was not reached.
CollectorExpire(pollId) ==
    /\ pollId \in DOMAIN polls
    /\ polls[pollId].collector = "running"
    /\ polls[pollId].timeout = "cleared"
    /\ polls' = [polls EXCEPT ![pollId].collector = "ended"]
    /\ last' = Event("collectorExpire", pollId, "", "", "returned")
    /\ UNCHANGED <<activePolls, buckets, execs, voteTasks, endTasks, timerTasks,
                   published, acked, used>>
    /\ UNCHANGED standupVars

----------------------------------------------------------------------------
(* /endpoll: endExecute (lines 752-796). *)

\* A lookup that finds every poll id.
HasAnyPoll(serverPolls, pollId) == TRUE

\* Line 780: serverPolls.has(pollId).
HasPoll(serverPolls, pollId) == pollId \in buckets[serverPolls]

\* Lines 753-790.  pollId = NoPoll is a request without poll_id (a listing).
\* The replies of lines 758, 773 and 781 end the handler and touch no state.
\* After the check of line 780, endPoll's own guard (line 687) passes.
EndExecute(guildId, pollId) ==
    /\ MayCall
    /\ used.ends < MaxEnds
    /\ pollId \in {NoPoll} \cup (1..used.polls)
    /\ LET serverPolls == activePolls[guildId] IN
       IF serverPolls = NoBucket \/ buckets[serverPolls] = {}
       THEN /\ last' = Event("endExecute", pollId, guildId, "noActive",
                             "returned")
            /\ UNCHANGED <<polls, endTasks>>
       ELSE IF pollId = NoPoll
       THEN /\ last' = Event("endExecute", pollId, guildId, "list", "returned")
            /\ UNCHANGED <<polls, endTasks>>
       ELSE IF ~HasPoll(serverPolls, pollId)
       THEN /\ last' = Event("endExecute", pollId, guildId, "notFound",
                             "returned")
            /\ UNCHANGED <<polls, endTasks>>
       ELSE /\ last' = Event("endExecute", pollId, guildId, "", "suspended")
            /\ endTasks' = Append(endTasks,
                  [guild |-> guildId, poll |-> pollId,
                   ep |-> EndPollStart(pollId, guildId)])
            /\ polls' = [polls EXCEPT ![pollId].timeout = ClearTimeout(@)]
    /\ used' = [used EXCEPT !.ends = @ + 1]
    /\ UNCHANGED <<activePolls, buckets, execs, voteTasks, timerTasks, published,
                   acked>>
    /\ UNCHANGED standupVars

\* Lines 790-795: endPoll resumes; after its return the "ended manually"
\* reply is sent.  When endPoll throws, endExecute throws and the dispatcher
\* (src/index.ts lines 102-111) answers with an error.
EndResume(i, ok) ==
    /\ i \in 1..Len(endTasks)
    /\ MayBe(ok)
    /\ LET e == endTasks[i]
           ep == EndPollNext(e.ep, ok)
       IN /\ last' = Event("endResume", e.poll, e.guild,
                           IF ep.st = "done" THEN "ended"
                           ELSE IF ep.st = "threw" THEN "error" ELSE "",
                           Fin(ep.st))
          /\ endTasks' = IF ep.st \in {"done", "threw"}
                         THEN Remove(endTasks, i)
                         ELSE [endTasks EXCEPT ![i].ep = ep]
          /\ EndPollResume(e.ep, e.poll, e.guild, ok)
    /\ used' = Count(ok)
    /\ UNCHANGED <<polls, execs, voteTasks, timerTasks, acked>>
    /\ UNCHANGED standupVars

----------------------------------------------------------------------------
Next ==
    \/ \E g \in Guilds, o \in OptionLists, d \in Durations :
          Execute(g, o, "text", d)
    \/ \E i \in 1..MaxPolls, ok \in BOOLEAN, m \in MemberSnapshots :
          Register(i, ok, m)
    \/ \E p \in 1..MaxPolls : TimerFire(p)
    \/ \E p \in 1..MaxPolls, ok \in BOOLEAN : TimerResume(p, ok)
    \/ \E p \in 1..MaxPolls, u \in Voters, c \in AllCustomIds : Collect(p, u, c)
    \/ \E i \in 1..MaxVotes, ok \in BOOLEAN : RejectResume(i, ok)
    \/ \E i \in 1..MaxVotes, ok \in BOOLEAN : AckResume(i, ok)
    \/ \E i \in 1..MaxVotes, ok \in BOOLEAN : VoteEndResume(i, ok)
    \/ \E p \in 1..MaxPolls : CollectorExpire(p)
    \/ \E g \in Guilds, p \in 0..MaxPolls : EndExecute(g, p)
    \/ \E i \in 1..MaxEnds, ok \in BOOLEAN : EndResume(i, ok)

Spec == Init /\ [][Next]_vars

\* One session on its own: a single /vote, with its timer, its collector, the
\* clicks on its buttons and /endpoll running against it.  The handlers are
\* those of Next; only the second /vote is left out, so that more calls are
\* spent on the one ledger.
OneSessionNext ==
    \/ \E g \in Guilds, o \in OptionLists, d \in Durations :
          used.polls = 0 /\ Execute(g, o, "text", d)
    \/ \E i \in 1..MaxPolls, ok \in BOOLEAN, m \in MemberSnapshots :
          Register(i, ok, m)
    \/ \E p \in 1..MaxPolls : TimerFire(p)
    \/ \E p \in 1..MaxPolls, ok \in BOOLEAN : TimerResume(p, ok)
    \/ \E p \in 1..MaxPolls, u \in Voters, c \in AllCustomIds : Collect(p, u, c)
    \/ \E i \in 1..MaxVotes, ok \in BOOLEAN : RejectResume(i, ok)
    \/ \E i \in 1..MaxVotes, ok \in BOOLEAN : AckResume(i, ok)
    \/ \E i \in 1..MaxVotes, ok \in BOOLEAN : VoteEndResume(i, ok)
    \/ \E p \in 1..MaxPolls : CollectorExpire(p)
    \/ \E g \in Guilds, p \in 0..MaxPolls : EndExecute(g, p)
    \/ \E i \in 1..MaxEnds, ok \in BOOLEAN : EndResume(i, ok)

OneSession == Init /\ [][OneSessionNext]_vars

\* What the event loop guarantees: a timer that stays armed fires, and a
\* handler suspended at a platform call is resumed when the call settles.
\* Nothing obliges a user to send /vote, /endpoll or a click.
Scheduling ==
    /\ \A p \in 1..MaxPolls : WF_vars(TimerFire(p))
    /\ \A p \in 1..MaxPolls : WF_vars(\E ok \in BOOLEAN : TimerResume(p, ok))
    /\ WF_vars(\E i \in 1..MaxPolls, ok \in BOOLEAN, m \in MemberSnapshots :
                  Register(i, ok, m))
    /\ WF_vars(\E i \in 1..MaxVotes, ok \in BOOLEAN : RejectResume(i, ok))
    /\ WF_vars(\E i \in 1..MaxVotes, ok \in BOOLEAN : AckResume(i, ok))
    /\ WF_vars(\E i \in 1..MaxVotes, ok \in BOOLEAN : VoteEndResume(i, ok))
    /\ WF_vars(\E i \in 1..MaxEnds, ok \in BOOLEAN : EndResume(i, ok))

FairSpec == Init /\ [][Next]_vars /\ Scheduling

\* Start requests of every kind: too few and too many options, outside a
\* text channel, with a zero or negative duration; accepted ones are
\* registered and closed by their deadline.
StartOptionLists ==
    {<<"A">>, <<"A", "B">>, <<"A", "B", "C", "D", "E">>,
     <<"A", "B", "C", "D", "E", "F">>}

StartDurations == {-1, 0, 1}

StartNext ==
    \/ \E g \in Guilds, o \in StartOptionLists, c \in Channels,
          d \in StartDurations : Execute(g, o, c, d)
    \/ \E i \in 1..MaxPolls, ok \in BOOLEAN, m \in MemberSnapshots :
          Register(i, ok, m)
    \/ \E p \in 1..MaxPolls : TimerFire(p)
    \/ \E p \in 1..MaxPolls, ok \in BOOLEAN : TimerResume(p, ok)

StartSpec == Init /\ [][StartNext]_vars

\* The start requests of one guild, with any number of options, in and
\* outside a text channel, with a duration that is in order.
RequestNext ==
    \/ \E o \in StartOptionLists, c \in Channels, d \in Durations :
          Execute("g1", o, c, d)
    \/ \E i \in 1..MaxPolls, ok \in BOOLEAN, m \in MemberSnapshots :
          Register(i, ok, m)
    \/ \E p \in 1..MaxPolls : TimerFire(p)
    \/ \E p \in 1..MaxPolls, ok \in BOOLEAN : TimerResume(p, ok)

RequestSpec == Init /\ [][RequestNext]_vars

----------------------------------------------------------------------------
(* The result compiler on its own: one registered session whose options,   *)
(* ledger and eligible set are drawn from the sets below, closed by its    *)
(* deadline timer.                                                         *)

TallyVoters == {"u1", "u2", "u3", "u4"}

TallyOptionLists ==
    {<<"A", "B">>, <<"A", "B", "C">>, <<"A", "B", "C", "D", "E">>}

\* The ledgers a session with these options can hold: one entry per voter,
\* in the order of the voters' first votes, each with the index of a button.
LedgersOf(voters, options) ==
    {v \in UNION {[1..n -> voters \X (0..(Len(options) - 1))] :
                      n \in 0..Cardinality(voters)} :
        \A j, k \in 1..Len(v) : v[j][1] = v[k][1] => j = k}

Ledgers(options) == LedgersOf(TallyVoters, options)

\* The eligible sets a session with this ledger can have: none (not
\* enforced), or a set that holds every voter of the ledger.
EligibleSets(votes) ==
    {{}, MapKeys(votes) \cup {"u1"}, TallyVoters \cup {"u5"}}

TallyInit ==
    \E options \in TallyOptionLists :
      \E votes \in Ledgers(options) :
        \E eligibleVoters \in EligibleSets(votes) :
          /\ activePolls = [g \in Guilds |-> IF g = "g1" THEN 1 ELSE NoBucket]
          /\ buckets = <<{1}>>
          /\ polls = <<[NewPoll([guild |-> "g1", options |-> options,
                                     duration |-> 1],
                                eligibleVoters, 1)
                          EXCEPT !.votes = votes]>>
          /\ execs = <<>>
          /\ voteTasks = <<>>
          /\ endTasks = <<>>
          /\ timerTasks = <<NoEp>>
          /\ published = << <<>> >>
          /\ acked = << {} >>
          /\ used = [polls |-> 1, votes |-> Len(votes), ends |-> 0,
                     faults |-> 0]
          /\ last = Event("init", NoPoll, "", "", "returned")
          /\ StandupInit

TallyNext ==
    \/ \E p \in 1..MaxPolls : TimerFire(p)
    \/ \E p \in 1..MaxPolls, ok \in BOOLEAN : TimerResume(p, ok)

TallySpec == TallyInit /\ [][TallyNext]_vars

\* Two registered sessions of one guild with the same options and the same
\* vote of every voter, entered in any two orders, and with any two eligible
\* sets; each session is closed by its own deadline timer.
PairVoters == {"u1", "u2", "u3"}

PairOptionLists == {<<"A", "B">>, <<"A", "B", "C">>}

\* The same entries in another insertion order.
Reorderings(votes) ==
    {[j \in 1..Len(votes) |-> votes[f[j]]] : f \in Permutations(1..Len(votes))}

PairEligibleSets(votes) == {{}, MapKeys(votes) \cup {"u1"}, PairVoters}

PairInit ==
    \E options \in PairOptionLists :
      \E votes \in LedgersOf(PairVoters, options) :
        \E votes2 \in Reorderings(votes) :
          \E eligibleVoters \in PairEligibleSets(votes) :
            \E eligibleVoters2 \in PairEligibleSets(votes) :
              /\ activePolls = [g \in Guilds |->
                                   IF g = "g1" THEN 1 ELSE NoBucket]
              /\ buckets = <<{1, 2}>>
              /\ polls = <<[NewPoll([guild |-> "g1", options |-> options,
                                     duration |-> 1],
                                    eligibleVoters, 1)
                              EXCEPT !.votes = votes],
                            [NewPoll([guild |-> "g1", options |-> options,
                                     duration |-> 1],
                                    eligibleVoters2, 1)
                              EXCEPT !.votes = votes2]>>
              /\ execs = <<>>
              /\ voteTasks = <<>>
              /\ endTasks = <<>>
              /\ timerTasks = <<NoEp, NoEp>>
              /\ published = << <<>>, <<>> >>
              /\ acked = << {}, {} >>
              /\ used = [polls |-> 2, votes |-> Len(votes) + Len(votes2),
                         ends |-> 0, faults |-> 0]
              /\ last = Event("init", NoPoll, "", "", "returned")
              /\ StandupInit

PairSpec == PairInit /\ [][TallyNext]_vars

----------------------------------------------------------------------------
(* The standup command (src/unnamed/part_000, lines 1-512) and the Convex  *)
(* functions it calls (src/convex/standupFunctions.ts).  A call of the     *)
(* Convex client is executed by the backend when it is sent and the        *)
(* handler resumes when the answer has arrived; a call that fails leaves   *)
(* the tables as they are.  Each action takes `ok`: whether the call the   *)
(* run ends at will resolve.                                               *)

\* The users who send /standup and answer the reminders.
Members == {"u1", "u2"}

StandupMayBe(ok) == ok \/ standupUsed.faults < MaxFaults

StandupCount(ok) ==
    IF ok THEN standupUsed ELSE [standupUsed EXCEPT !.faults = @ + 1]

\* addStandupUser: the row of the user is inserted, or patched when it
\* exists (the channel is not modelled).
AddStandupUser(users, guildId, userId) == users \cup {<<guildId, userId>>}

\* removeStandupUser: the row of the user is deleted when it exists.
RemoveStandupUser(users, guildId, userId) == users \ {<<guildId, userId>>}

\* getStandupUsers: the rows of the guild.
GetStandupUsers(users, guildId) == {r \in users : r[1] = guildId}

\* getStandupUser: whether the user has a row.
GetStandupUser(users, guildId, userId) == <<guildId, userId>> \in users

\* Lines 251-252 and 147-148: the two job keys of a guild.
JobKeys(guildId) == {<<guildId, "morning">>, <<guildId, "evening">>}

\* Lines 250-287: nothing when both jobs exist; otherwise what exists is
\* stopped and deleted and both jobs are created, started and stored.
ScheduleJobs(jobs, guildId) ==
    IF JobKeys(guildId) \subseteq jobs
    THEN jobs
    ELSE (jobs \ JobKeys(guildId)) \cup JobKeys(guildId)

\* Lines 146-159: the jobs of the guild are stopped and deleted.
RemoveJobs(jobs, guildId) == jobs \ JobKeys(guildId)

\* Lines 61-92.  A channel that is not a text channel or that the member
\* cannot write to is answered and nothing else happens; otherwise
\* addStandupUser is sent.
HandleJoin(userId, guildId, valid, ok) ==
    /\ standupUsed.joins < MaxJoins
    /\ StandupMayBe(ok)
    /\ IF ~valid
       THEN /\ ok
            /\ last' = Event("join", NoPoll, userId, "rejected", "returned")
            /\ UNCHANGED <<standupUsers, joinTasks>>
       ELSE /\ standupUsers' = IF ok
                               THEN AddStandupUser(standupUsers, guildId, userId)
                               ELSE standupUsers
            /\ joinTasks' = Append(joinTasks,
                               [user |-> userId, guild |-> guildId,
                                pc |-> "addUser", ok |-> ok])
            /\ last' = Event("join", NoPoll, userId, "", "suspended")
    /\ standupUsed' = [StandupCount(ok) EXCEPT !.joins = @ + 1]
    /\ UNCHANGED <<scheduledJobs, leaveTasks, dmTasks, submitted>>
    /\ UNCHANGED pollVars
    /\ UNCHANGED convexVars

\* Lines 88-107.  After addStandupUser the reply is sent; after the reply
\* scheduleJobs runs.  A rejection of either is caught at line 101 and the
\* error reply is sent; a rejection of that reply leaves the handler.
JoinResume(i, ok) ==
    /\ i \in 1..Len(joinTasks)
    /\ StandupMayBe(ok)
    /\ LET t == joinTasks[i] IN
       IF t.pc \in {"addUser", "reply"} /\ ~t.ok
       THEN /\ joinTasks' = [joinTasks EXCEPT ![i].pc = "errorReply",
                                              ![i].ok = ok]
            /\ last' = Event("joinResume", NoPoll, t.user, "", "suspended")
            /\ UNCHANGED scheduledJobs
       ELSE IF t.pc = "addUser"
       THEN /\ joinTasks' = [joinTasks EXCEPT ![i].pc = "reply", ![i].ok = ok]
            /\ last' = Event("joinResume", NoPoll, t.user, "", "suspended")
            /\ UNCHANGED scheduledJobs
       ELSE IF t.pc = "reply"
       THEN /\ ok
            /\ scheduledJobs' = ScheduleJobs(scheduledJobs, t.guild)
            /\ joinTasks' = Remove(joinTasks, i)
            /\ last' = Event("joinResume", NoPoll, t.user, "joined",
                             "returned")
       ELSE /\ ok
            /\ joinTasks' = Remove(joinTasks, i)
            /\ last' = Event("joinResume", NoPoll, t.user, "error",
                             IF t.ok THEN "returned" ELSE "threw")
            /\ UNCHANGED scheduledJobs
    /\ standupUsed' = StandupCount(ok)
    /\ UNCHANGED <<standupUsers, leaveTasks, dmTasks, submitted>>
    /\ UNCHANGED pollVars
    /\ UNCHANGED convexVars

\* Lines 111-120: getStandupUser is sent.
HandleLeave(userId, guildId, ok) ==
    /\ standupUsed.leaves < MaxLeaves
    /\ StandupMayBe(ok)
    /\ leaveTasks' = Append(leaveTasks,
                        [user |-> userId, guild |-> guildId, pc |-> "getUser",
                         ok |-> ok,
                         found |-> GetStandupUser(standupUsers, guildId,
                                                  userId),
                         remaining |-> {}])
    /\ last' = Event("leave", NoPoll, userId, "", "suspended")
    /\ standupUsed' = [StandupCount(ok) EXCEPT !.leaves = @ + 1]
    /\ UNCHANGED <<standupUsers, scheduledJobs, joinTasks, dmTasks, submitted>>
    /\ UNCHANGED pollVars
    /\ UNCHANGED convexVars

\* Lines 122-166.  A user without a row is told so (line 123) and the
\* handler is over when that reply settles.  Otherwise removeStandupUser is
\* sent, then the reply, then getStandupUsers; when its answer holds no row
\* the jobs of the guild are removed.  A rejection of any of these is caught
\* at line 160 and the error reply is sent.
LeaveResume(i, ok) ==
    /\ i \in 1..Len(leaveTasks)
    /\ StandupMayBe(ok)
    /\ LET t == leaveTasks[i] IN
       IF t.pc \in {"getUser", "removeUser", "reply", "getUsers"} /\ ~t.ok
       THEN /\ leaveTasks' = [leaveTasks EXCEPT ![i].pc = "errorReply",
                                                ![i].ok = ok]
            /\ last' = Event("leaveResume", NoPoll, t.user, "", "suspended")
            /\ UNCHANGED <<standupUsers, scheduledJobs>>
       ELSE IF t.pc = "getUser" /\ ~t.found
       THEN /\ leaveTasks' = [leaveTasks EXCEPT ![i].pc = "lastReply",
                                                ![i].ok = ok]
            /\ last' = Event("leaveResume", NoPoll, t.user, "notSignedUp",
                             "suspended")
            /\ UNCHANGED <<standupUsers, scheduledJobs>>
       ELSE IF t.pc = "getUser"
       THEN /\ standupUsers' = IF ok
                               THEN RemoveStandupUser(standupUsers, t.guild,
                                                      t.user)
                               ELSE standupUsers
            /\ leaveTasks' = [leaveTasks EXCEPT ![i].pc = "removeUser",
                                                ![i].ok = ok]
            /\ last' = Event("leaveResume", NoPoll, t.user, "", "suspended")
            /\ UNCHANGED scheduledJobs
       ELSE IF t.pc = "removeUser"
       THEN /\ leaveTasks' = [leaveTasks EXCEPT ![i].pc = "reply",
                                                ![i].ok = ok]
            /\ last' = Event("leaveResume", NoPoll, t.user, "", "suspended")
            /\ UNCHANGED <<standupUsers, scheduledJobs>>
       ELSE IF t.pc = "reply"
       THEN /\ leaveTasks' = [leaveTasks EXCEPT
                                 ![i].pc = "getUsers",
                                 ![i].ok = ok,
                                 ![i].remaining =
                                     GetStandupUsers(standupUsers, t.guild)]
            /\ last' = Event("leaveResume", NoPoll, t.user, "removed",
                             "suspended")
            /\ UNCHANGED <<standupUsers, scheduledJobs>>
       ELSE IF t.pc = "getUsers"
       THEN /\ ok
            /\ scheduledJobs' = IF t.remaining = {}
                                THEN RemoveJobs(scheduledJobs, t.guild)
                                ELSE scheduledJobs
            /\ leaveTasks' = Remove(leaveTasks, i)
            /\ last' = Event("leaveResume", NoPoll, t.user, "left", "returned")
            /\ UNCHANGED standupUsers
       ELSE /\ ok
            /\ leaveTasks' = Remove(leaveTasks, i)
            /\ last' = Event("leaveResume", NoPoll, t.user,
                             IF t.pc = "lastReply" THEN "notSignedUp"
                             ELSE "error",
                             IF t.ok THEN "returned" ELSE "threw")
            /\ UNCHANGED <<standupUsers, scheduledJobs>>
    /\ standupUsed' = StandupCount(ok)
    /\ UNCHANGED <<joinTasks, dmTasks, submitted>>
    /\ UNCHANGED pollVars
    /\ UNCHANGED convexVars

\* The joins and leaves of the members of the guilds, in any interleaving.
SchedulerNext ==
    \/ \E u \in Members, g \in Guilds, valid \in BOOLEAN, ok \in BOOLEAN :
          HandleJoin(u, g, valid, ok)
    \/ \E i \in 1..MaxJoins, ok \in BOOLEAN : JoinResume(i, ok)
    \/ \E u \in Members, g \in Guilds, ok \in BOOLEAN : HandleLeave(u, g, ok)
    \/ \E i \in 1..MaxLeaves, ok \in BOOLEAN : LeaveResume(i, ok)

SchedulerSpec == Init /\ [][SchedulerNext]_vars

----------------------------------------------------------------------------
(* The standup update in the direct-message channel (lines 341-401).       *)

\* Lines 353-357 and 391-393: the three questions, by the field their
\* answer is submitted in.
Questions == <<"done", "doing", "blockers">>

\* The content of a message the user answers with; "" is a message without
\* text.
ReplyContents == {"a", ""}

\* The guilds whose reminder is answered (customId `standup_${guildId}`,
\* lines 323 and 342).
PromptGuilds == {"g1"}

\* What awaitMessages settles with: a message of the user, or the rejection
\* for `errors: ['time']` after five minutes.
Outcomes == ReplyContents \cup {"timeout"}

\* interaction.channel of the click: the DM channel, or null.
DmChannels == {"dm", "none"}

\* Lines 391-393: `responses[i] || 'No response'`.
OrDefault(response) == IF response = "" THEN "No response" ELSE response

\* Lines 387-394: the arguments of submitStandupResponse (the date is not
\* modelled); run tells the runs of one user apart.
Record(t, responses) ==
    [run |-> t.id, userId |-> t.user, guildId |-> t.guild,
     done |-> OrDefault(responses[1]),
     doing |-> OrDefault(responses[2]),
     blockers |-> OrDefault(responses[3])]

\* Lines 373-387: the answer to question t.k is pushed; then the next
\* question is sent, or after the last one submitStandupResponse is called.
Pushed(t, response, ok) ==
    IF t.k < Len(Questions)
    THEN [t EXCEPT !.responses = Append(@, response), !.k = @ + 1,
                   !.pc = "ask", !.ok = ok]
    ELSE [t EXCEPT !.responses = Append(@, response), !.pc = "submit",
                   !.ok = ok]

Submitted(t, response) ==
    IF t.k < Len(Questions)
    THEN submitted
    ELSE Append(submitted, Record(t, Append(t.responses, response)))

\* Lines 341-362: the user has clicked "Provide Update", the reply of line
\* 343 has resolved and collectStandupResponses sends the first question.
CollectStandupResponses(userId, guildId, channel, ok) ==
    /\ standupUsed.runs < MaxRuns
    /\ StandupMayBe(ok)
    /\ dmTasks' = Append(dmTasks,
                     [id |-> standupUsed.runs + 1, user |-> userId,
                      guild |-> guildId, channel |-> channel, pc |-> "ask",
                      k |-> 1, responses |-> <<>>, ok |-> ok])
    /\ last' = Event("collectStandupResponses", NoPoll, userId, "",
                     "suspended")
    /\ standupUsed' = [StandupCount(ok) EXCEPT !.runs = @ + 1]
    /\ UNCHANGED <<standupUsers, scheduledJobs, joinTasks, leaveTasks,
                   submitted>>
    /\ UNCHANGED pollVars
    /\ UNCHANGED convexVars

\* Lines 362-400, the resumption after a send or after the mutation.
\* A rejected user.send(question) is outside every try block and ends the
\* run.  With a channel, awaitMessages is called; without one
\* (`interaction.channel?.`) the answer is 'No response' at once.  After the
\* mutation the thanks are sent, or the apology when it rejected or when the
\* thanks could not be sent.
DmResume(i, ok) ==
    /\ i \in 1..Len(dmTasks)
    /\ dmTasks[i].pc # "wait"
    /\ StandupMayBe(ok)
    /\ LET t == dmTasks[i] IN
       IF t.pc = "ask" /\ ~t.ok
       THEN /\ ok
            /\ dmTasks' = Remove(dmTasks, i)
            /\ last' = Event("dmResume", NoPoll, t.user, "", "threw")
            /\ UNCHANGED submitted
       ELSE IF t.pc = "ask" /\ t.channel = "dm"
       THEN /\ ok
            /\ dmTasks' = [dmTasks EXCEPT ![i].pc = "wait"]
            /\ last' = Event("dmResume", NoPoll, t.user, "", "suspended")
            /\ UNCHANGED submitted
       ELSE IF t.pc = "ask"
       THEN /\ dmTasks' = [dmTasks EXCEPT ![i] = Pushed(t, "No response", ok)]
            /\ submitted' = Submitted(t, "No response")
            /\ last' = Event("dmResume", NoPoll, t.user, "", "suspended")
       ELSE IF t.pc = "submit" \/ (t.pc = "thanks" /\ ~t.ok)
       THEN /\ dmTasks' = [dmTasks EXCEPT
                              ![i].pc = IF t.pc = "submit" /\ t.ok
                                        THEN "thanks" ELSE "sorry",
                              ![i].ok = ok]
            /\ last' = Event("dmResume", NoPoll, t.user, "", "suspended")
            /\ UNCHANGED submitted
       ELSE /\ ok
            /\ dmTasks' = Remove(dmTasks, i)
            /\ last' = Event("dmResume", NoPoll, t.user,
                             IF t.pc = "thanks" THEN "thanks" ELSE "sorry",
                             IF t.ok THEN "returned" ELSE "threw")
            /\ UNCHANGED submitted
    /\ standupUsed' = StandupCount(ok)
    /\ UNCHANGED <<standupUsers, scheduledJobs, joinTasks, leaveTasks>>
    /\ UNCHANGED pollVars
    /\ UNCHANGED convexVars

\* Lines 366-380: awaitMessages settles with a message of the user, whose
\* content is pushed, or with the timeout, for which the catch of line 378
\* pushes 'No response (timed out)'.
AwaitMessages(i, outcome, ok) ==
    /\ i \in 1..Len(dmTasks)
    /\ dmTasks[i].pc = "wait"
    /\ StandupMayBe(ok)
    /\ LET t == dmTasks[i]
           response == IF outcome = "timeout" THEN "No response (timed out)"
                       ELSE outcome
       IN /\ dmTasks' = [dmTasks EXCEPT ![i] = Pushed(t, response, ok)]
          /\ submitted' = Submitted(t, response)
          /\ last' = Event("awaitMessages", NoPoll, t.user, outcome,
                           "suspended")
    /\ standupUsed' = StandupCount(ok)
    /\ UNCHANGED <<standupUsers, scheduledJobs, joinTasks, leaveTasks>>
    /\ UNCHANGED pollVars
    /\ UNCHANGED convexVars

CollectionNext ==
    \/ \E u \in Members, g \in PromptGuilds, c \in DmChannels,
          ok \in BOOLEAN : CollectStandupResponses(u, g, c, ok)
    \/ \E i \in 1..MaxRuns, ok \in BOOLEAN : DmResume(i, ok)
    \/ \E i \in 1..MaxRuns, o \in Outcomes, ok \in BOOLEAN :
          AwaitMessages(i, o, ok)

CollectionSpec == Init /\ [][CollectionNext]_vars

----------------------------------------------------------------------------
(* The Convex mutations (src/convex/standupFunctions.ts).  The backend     *)
(* runs a mutation as one transaction: its reads and its writes happen     *)
(* with no other mutation in between, so each mutation is one action.  A   *)
(* table is the set of its documents; a document carries the id the        *)
(* insert gave it, and two documents of a table may hold the same fields.  *)

\* The values of the channelId argument.
ChannelIds == {"c1", "c2"}

\* The values of the date argument.
Dates == {"d1", "d2"}

\* The values of the done, doing and blockers arguments.
Answers == {<<"a", "b", "c">>, <<"d", "e", "f">>}

\* Lines 31, 123 and 134, Date.now(): the clock reads one more with every
\* mutation.
Now == dbUsed.mutations + 1

\* Lines 13-18, 43-48: the documents the index by_guild_and_user yields for
\* the two keys.
ByGuildAndUser(d, guildId, userId) ==
    {u \in d.standupUsers : u.guildId = guildId /\ u.userId = userId}

\* Lines 108-115: the documents the index by_guild_user_date yields for the
\* three keys.
ByGuildUserDate(d, guildId, userId, date) ==
    {r \in d.standupResponses :
        r.guildId = guildId /\ r.userId = userId /\ r.date = date}

\* .first(): of the documents of the index range, the one created first.
First(docs) == CHOOSE x \in docs : \A y \in docs : x.id <= y.id

\* addStandupUser without the lookup of lines 13-20: always the insert.
AddStandupUserAlwaysInserts(d, userId, guildId, channelId, now) ==
    [db |-> [d EXCEPT !.standupUsers = @ \cup
                         {[id |-> d.ids + 1, userId |-> userId,
                           guildId |-> guildId, channelId |-> channelId,
                           joinedAt |-> now]},
                      !.ids = @ + 1],
     result |-> "id"]

\* Lines 11-34, the handler of addStandupUser.  A document of the guild and
\* the user is patched with the channel and the patch answers nothing;
\* otherwise a document is inserted and the insert answers its id.
AddStandupUserHandler(d, userId, guildId, channelId, now) ==
    LET existing == ByGuildAndUser(d, guildId, userId) IN
    IF existing # {}
    THEN LET existingUser == First(existing) IN
         [db |-> [d EXCEPT !.standupUsers = (@ \ {existingUser}) \cup
                      {[existingUser EXCEPT !.channelId = channelId]}],
          result |-> "null"]
    ELSE [db |-> [d EXCEPT !.standupUsers = @ \cup
                              {[id |-> d.ids + 1, userId |-> userId,
                                guildId |-> guildId, channelId |-> channelId,
                                joinedAt |-> now]},
                           !.ids = @ + 1],
          result |-> "id"]

\* Lines 42-56, the handler of removeStandupUser.  The first document of
\* the guild and the user is deleted; without one the answer is the
\* failure value and nothing is written.
RemoveStandupUserHandler(d, userId, guildId) ==
    LET existing == ByGuildAndUser(d, guildId, userId) IN
    IF existing # {}
    THEN [db |-> [d EXCEPT !.standupUsers = @ \ {First(existing)}],
          result |-> "success"]
    ELSE [db |-> d, result |-> "User not found"]

\* Lines 106-137, the handler of submitStandupResponse.  A document of the
\* guild, the user and the date is patched with the three answers and the
\* time; otherwise a document is inserted.
SubmitStandupResponseHandler(d, userId, guildId, date, answers, now) ==
    LET existing == ByGuildUserDate(d, guildId, userId, date) IN
    IF existing # {}
    THEN LET existingResponse == First(existing) IN
         [db |-> [d EXCEPT !.standupResponses = (@ \ {existingResponse}) \cup
                      {[existingResponse EXCEPT !.done = answers[1],
                                                !.doing = answers[2],
                                                !.blockers = answers[3],
                                                !.submittedAt = now]}],
          result |-> "null"]
    ELSE [db |-> [d EXCEPT !.standupResponses = @ \cup
                              {[id |-> d.ids + 1, userId |-> userId,
                                guildId |-> guildId, date |-> date,
                                done |-> answers[1], doing |-> answers[2],
                                blockers |-> answers[3],
                                submittedAt |-> now]},
                           !.ids = @ + 1],
          result |-> "id"]

\* One transaction of addStandupUser.  The rows the command handlers read
\* are the keys of the documents.
AddStandupUserMutation(userId, guildId, channelId) ==
    /\ dbUsed.mutations < MaxMutations
    /\ LET r == AddStandupUserHandler(db, userId, guildId, channelId, Now) IN
          /\ db' = r.db
          /\ last' = Event("addStandupUser", NoPoll, userId, r.result,
                           "returned")
    /\ standupUsers' = AddStandupUser(standupUsers, guildId, userId)
    /\ dbUsed' = [dbUsed EXCEPT !.mutations = @ + 1]
    /\ UNCHANGED <<scheduledJobs, joinTasks, leaveTasks, dmTasks, submitted,
                   standupUsed>>
    /\ UNCHANGED pollVars

\* One transaction of removeStandupUser.
RemoveStandupUserMutation(userId, guildId) ==
    /\ dbUsed.mutations < MaxMutations
    /\ LET r == RemoveStandupUserHandler(db, userId, guildId) IN
          /\ db' = r.db
          /\ last' = Event("removeStandupUser", NoPoll, userId, r.result,
                           "returned")
    /\ standupUsers' = RemoveStandupUser(standupUsers, guildId, userId)
    /\ dbUsed' = [dbUsed EXCEPT !.mutations = @ + 1]
    /\ UNCHANGED <<scheduledJobs, joinTasks, leaveTasks, dmTasks, submitted,
                   standupUsed>>
    /\ UNCHANGED pollVars

\* One transaction of submitStandupResponse.
SubmitStandupResponseMutation(userId, guildId, date, answers) ==
    /\ dbUsed.mutations < MaxMutations
    /\ LET r == SubmitStandupResponseHandler(db, userId, guildId, date,
                                             answers, Now) IN
          /\ db' = r.db
          /\ last' = Event("submitStandupResponse", NoPoll, userId, r.result,
                           "returned")
    /\ dbUsed' = [dbUsed EXCEPT !.mutations = @ + 1]
    /\ UNCHANGED <<standupUsers, scheduledJobs, joinTasks, leaveTasks,
                   dmTasks, submitted, standupUsed>>
    /\ UNCHANGED pollVars

\* The three mutations with any arguments, in any order.
ConvexNext ==
    \/ \E u \in Members, g \in Guilds, c \in ChannelIds :
          AddStandupUserMutation(u, g, c)
    \/ \E u \in Members, g \in Guilds : RemoveStandupUserMutation(u, g)
    \/ \E u \in Members, g \in Guilds, d \in Dates, a \in Answers :
          SubmitStandupResponseMutation(u, g, d, a)

ConvexSpec == Init /\ [][ConvexNext]_vars

----------------------------------------------------------------------------
(* State functions the properties are stated with. *)

Count1(b) == IF b THEN 1 ELSE 0

RECURSIVE CountTasks(_, _, _)
CountTasks(tasks, pollId, closing) ==
    IF tasks = <<>> THEN 0
    ELSE Count1(Head(tasks).poll = pollId /\ Head(tasks).ep.st \in closing)
         + CountTasks(Tail(tasks), pollId, closing)

\* endPoll invocations for pollId that have tallied and are suspended at
\* message.edit or message.reply.
ClosuresInFlight(pollId) ==
    Count1(timerTasks[pollId].st \in {"edit", "reply"})
    + CountTasks(voteTasks, pollId, {"edit", "reply"})
    + CountTasks(endTasks, pollId, {"edit", "reply"})

\* activePolls.get(guild)?.has(pollId): the poll is found by lookup.
Stored(pollId) == InStore(pollId, polls[pollId].guild)

\* What /endpoll without poll_id and /listpolls list for a guild.
Listing(guildId) ==
    IF activePolls[guildId] = NoBucket THEN {}
    ELSE buckets[activePolls[guildId]]

\* No /vote is suspended at members.fetch() and no endPoll is suspended at
\* message.edit or message.reply.
Quiet ==
    /\ execs = <<>>
    /\ endTasks = <<>>
    /\ \A p \in DOMAIN timerTasks : timerTasks[p].st = "none"
    /\ \A i \in 1..Len(voteTasks) : voteTasks[i].pc # "end"

\* The results the closures of pollId have built: those of the deadline
\* callback while it is suspended, and those that were posted.
Tallied(pollId) ==
    (IF timerTasks[pollId].st \in {"edit", "reply"}
     THEN {timerTasks[pollId].res} ELSE {})
    \cup {published[pollId][k] : k \in 1..Len(published[pollId])}

\* The number of voters whose entry in the ledger is option index i.
VotesFor(votes, i) == Cardinality({u \in MapKeys(votes) : MapGet(votes, u) = i})

\* Two ledgers hold the same voters with the same option index each.
SameLedger(v, w) ==
    /\ MapKeys(v) = MapKeys(w)
    /\ \A u \in MapKeys(v) : MapGet(v, u) = MapGet(w, u)

\* The k-th smallest element of a set of numbers.
Kth(S, k) == CHOOSE i \in S : Cardinality({j \in S : j < i}) = k - 1

\* A closure of pollId has tallied the ledger and has not failed since.
ClosureStarted(pollId) ==
    ClosuresInFlight(pollId) > 0 \/ published[pollId] # <<>>

----------------------------------------------------------------------------
(* C1.  For every session and every interleaving of the close triggers     *)
(* (deadline callback, full-participation vote, /endpoll), the closure     *)
(* sequence of endPoll runs once: while one closure of a session is        *)
(* suspended at its publish calls, or after one has published, no other    *)
(* closure of that session tallies or publishes.                           *)
C1_ClosureRunsOnce ==
    \A p \in DOMAIN polls : Len(published[p]) + ClosuresInFlight(p) <= 1

(* C2.  No vote is written to a session's ledger once a closure of that    *)
(* session has started (endPoll has tallied the ledger), the window in     *)
(* which endPoll awaits message.edit / message.reply included.             *)
C2_NoVoteAfterClosureStarts ==
    [][\A p \in DOMAIN polls :
          ClosureStarted(p) => polls'[p].votes = polls[p].votes]_vars

(* C3.  A button click handled after its session was closed and removed    *)
(* from the store is answered with a "poll ended" rejection and the        *)
(* handler does not fault.                                                 *)
C3_LateVoteRejected ==
    (last.op = "collect" /\ ~Stored(last.poll) /\ ~HasPollData(last.poll))
        => (last.fin # "threw" /\ last.out = "pollEnded")

(* C4.  When eligibility is enforced and an accepted vote has made the     *)
(* ledger as large as the eligible set, that vote's handler closes the     *)
(* session without waiting for the deadline: when the handler is over the  *)
(* timer is no longer armed, results are published and the session is out  *)
(* of the store.                                                           *)
C4_FullParticipationCloses ==
    (/\ last.op \in {"ackResume", "voteEndResume"}
     /\ last.fin # "suspended"
     /\ polls[last.poll].eligibleVoters # {}
     /\ Len(polls[last.poll].votes)
            = Cardinality(polls[last.poll].eligibleVoters))
        => (/\ polls[last.poll].timeout # "armed"
            /\ published[last.poll] # <<>>
            /\ ~Stored(last.poll))

(* C5.  In every reachable state, a session with a non-empty eligibleVoters *)
(* set has at most as many ledger entries as eligible voters.              *)
C5_LedgerWithinEligible ==
    \A p \in DOMAIN polls :
        polls[p].eligibleVoters # {}
            => Len(polls[p].votes) <= Cardinality(polls[p].eligibleVoters)

\* A click arrives at a session whose ledger already holds every eligible
\* voter.
C5_Witness ==
    /\ last.op = "collect"
    /\ used.votes >= 2
    /\ polls[last.poll].eligibleVoters # {}
    /\ Len(polls[last.poll].votes)
           = Cardinality(polls[last.poll].eligibleVoters)

(* C6.  A vote by a user outside a session's non-empty eligibleVoters set  *)
(* is rejected as "not eligible": the handler run that receives it changes *)
(* neither the ledger nor the timer nor the store and starts no closure,   *)
(* it only sends the rejection; and the run in which that reply settles    *)
(* changes nothing either and ends the handler, with "not eligible"        *)
(* delivered unless the reply itself failed.                               *)
C6_IneligibleVoteRejected ==
    [][/\ (/\ last'.op = "collect"
           /\ HasPollData(last'.poll)
           /\ polls[last'.poll].eligibleVoters # {}
           /\ last'.user \notin polls[last'.poll].eligibleVoters)
          => (/\ UNCHANGED <<polls, activePolls, buckets, published,
                             timerTasks, endTasks>>
              /\ last'.fin = "suspended"
              /\ voteTasks' = Append(voteTasks,
                    [poll |-> last'.poll, user |-> last'.user,
                     opt |-> voteTasks'[Len(voteTasks')].opt,
                     pc |-> "reject", ep |-> NoEp]))
       /\ last'.op = "rejectResume"
          => (/\ UNCHANGED <<polls, activePolls, buckets, published,
                             timerTasks, endTasks>>
              /\ Len(voteTasks') = Len(voteTasks) - 1
              /\ last'.user \notin polls[last'.poll].eligibleVoters
              /\ \/ last'.fin = "returned" /\ last'.out = "notEligible"
                 \/ last'.fin = "threw" /\ last'.out = "")]_vars

\* An outsider has been told "not eligible" and the timer is still armed.
C6_Witness ==
    /\ last.op = "rejectResume"
    /\ last.out = "notEligible"
    /\ polls[last.poll].eligibleVoters # {}
    /\ last.user \notin polls[last.poll].eligibleVoters
    /\ polls[last.poll].timeout = "armed"

(* C7.  For an open session, a vote by a voter who already has an entry    *)
(* replaces that entry's option index with the new one (latest write       *)
(* wins): the ledger keeps its size and its other entries, and in every    *)
(* state it holds at most one entry per voter.                             *)
C7_VoteChangeReplaces ==
    [][\A p \in DOMAIN polls :
          LET v == polls[p].votes
              w == polls'[p].votes
              t == voteTasks'[Len(voteTasks')]
          IN /\ \A j, k \in 1..Len(w) : w[j][1] = w[k][1] => j = k
             /\ (/\ last'.op = "collect"
                 /\ last'.poll = p
                 /\ last'.fin = "suspended"
                 /\ t.pc = "ack"
                 /\ \E j \in 1..Len(v) : v[j][1] = t.user)
                => (/\ Len(w) = Len(v)
                    /\ \A j \in 1..Len(v) :
                          w[j] = IF v[j][1] = t.user
                                 THEN <<t.user, t.opt>> ELSE v[j])]_vars

\* A voter has voted twice, for two options, and the ledger holds the second.
C7_Witness ==
    /\ last.op = "collect"
    /\ Len(voteTasks) = 2
    /\ voteTasks[1].poll = voteTasks[2].poll
    /\ voteTasks[1].user = voteTasks[2].user
    /\ voteTasks[1].opt # voteTasks[2].opt
    /\ voteTasks[1].pc = "ack" /\ voteTasks[2].pc = "ack"
    /\ polls[last.poll].votes = <<<<voteTasks[2].user, voteTasks[2].opt>>>>

(* C8.  If publishing fails during closure (message.edit or message.reply  *)
(* throws), the session is nonetheless removed from the store.             *)
C8_PublishFailureStillRemoves ==
    (last.op \in {"timerResume", "voteEndResume", "endResume"}
     /\ last.fin = "threw")
        => ~Stored(last.poll)

(* C9.  A /vote whose members.fetch() overlaps the closure of the only     *)
(* other session of its guild still completes: the new session is in the   *)
(* store under its guild, found by lookup and listing, with an empty       *)
(* ledger and an armed timer.                                              *)
C9_OverlappedStartCompletes ==
    last.op = "register"
        => (/\ last.fin = "returned"
            /\ last.poll \in DOMAIN polls
            /\ Stored(last.poll)
            /\ last.poll \in Listing(polls[last.poll].guild)
            /\ polls[last.poll].votes = <<>>
            /\ polls[last.poll].timeout = "armed")

(* C10.  Closing a session removes only that session: every session that   *)
(* has been registered and has not itself been removed by a closure is     *)
(* reachable through activePolls[guild][id].                               *)
C10_OnlyClosedSessionLeaves ==
    \A p \in DOMAIN polls : published[p] = <<>> => Stored(p)

(* C11.  Provided no message.edit or message.reply of a closure is ever    *)
(* rejected, and with timers and suspended handlers scheduled as the event *)
(* loop schedules them, every session that has been registered is          *)
(* eventually closed: its results are published and it is out of the       *)
(* store.                                                                  *)
C11_EverySessionCloses ==
    \/ <>(last.op \in {"timerResume", "voteEndResume", "endResume"}
          /\ last.fin = "threw")
    \/ \A p \in 1..MaxPolls :
          [](p \in DOMAIN polls
                => <>(/\ p \in DOMAIN polls
                      /\ published[p] # <<>>
                      /\ ~Stored(p)))

(* C12.  When a full-participation vote or /endpoll begins a closure of a  *)
(* session whose timer is still armed, the timer is cleared in that same   *)
(* run, before endPoll is entered, and a cleared timer stays cleared: its  *)
(* callback never runs.  A timer callback that runs when its session is no *)
(* longer in the store returns at once: the store, the published results   *)
(* and the session's ledger are unchanged, no closure is left suspended    *)
(* and the session is not back in the store.                               *)
C12_TimerCancelledStaleNoop ==
    [][\A p \in DOMAIN polls :
          /\ (/\ last'.poll = p
              /\ \/ last'.op = "endExecute" /\ last'.fin = "suspended"
                 \/ last'.op = "ackResume" /\ last'.fin = "suspended"
              /\ polls[p].timeout = "armed")
                => polls'[p].timeout = "cleared"
          /\ polls[p].timeout = "cleared"
                => (/\ polls'[p].timeout = "cleared"
                    /\ ~(last'.op = "timer" /\ last'.poll = p))
          /\ (last'.op = "timer" /\ last'.poll = p /\ ~Stored(p))
                => (/\ UNCHANGED <<activePolls, buckets, published, voteTasks,
                                   endTasks, execs>>
                    /\ polls'[p].votes = polls[p].votes
                    /\ polls'[p].eligibleVoters = polls[p].eligibleVoters
                    /\ \A q \in DOMAIN polls \ {p} : polls'[q] = polls[q]
                    /\ timerTasks'[p] = NoEp
                    /\ last'.fin = "returned"
                    /\ ~Stored(p)')]_vars

\* /endpoll has closed a session whose timer was armed: the timer is cleared
\* and the results are out.
C12_Witness ==
    /\ last.op = "endResume"
    /\ last.out = "ended"
    /\ polls[last.poll].timeout = "cleared"
    /\ Len(published[last.poll]) = 1

\* A deadline callback has run for a session that was no longer in the store.
C12_StaleCallbackRan ==
    /\ last.op = "timer"
    /\ last.fin = "returned"
    /\ ~Stored(last.poll)
    /\ published[last.poll] = <<>>

(* C13.  An /endpoll that names a session which has been closed and        *)
(* removed changes nothing, each time it is sent: the store, every         *)
(* session's ledger, eligibility set and timer, the published results and  *)
(* the suspended handlers are as before, and the request is answered with  *)
(* "no active polls" or "no active poll found".                            *)
C13_CloseAfterCloseIsNoop ==
    [][\A p \in DOMAIN polls :
          (/\ last'.op = "endExecute"
           /\ last'.poll = p
           /\ published[p] # <<>>
           /\ ~Stored(p))
             => (/\ UNCHANGED <<activePolls, buckets, polls, published, execs,
                                voteTasks, endTasks, timerTasks>>
                 /\ last'.out \in {"noActive", "notFound"}
                 /\ last'.fin = "returned")]_vars

\* /endpoll has been sent twice for a session that was already closed and
\* removed.
C13_Witness ==
    /\ last.op = "endExecute"
    /\ last.out \in {"noActive", "notFound"}
    /\ used.ends = 2
    /\ last.poll \in DOMAIN polls
    /\ published[last.poll] # <<>>
    /\ ~Stored(last.poll)
    /\ endTasks = <<>>

(* C14.  When the ledger is not empty, the winners of a closure are the    *)
(* options whose count is the maximum count, in the order of the options;  *)
(* one such option is reported as the winner, several as a tie.  Options   *)
(* A,B,C with votes u1:0, u2:1, u3:0, u4:1 give a tie of A and B with two  *)
(* votes each.                                                             *)
C14_WinnersAreMaxima ==
    \A p \in DOMAIN polls : \A r \in Tallied(p) :
        LET options == polls[p].options
            votes == polls[p].votes
            top == CHOOSE x \in 0..Len(votes) :
                      /\ \E i \in 1..Len(options) : VotesFor(votes, i - 1) = x
                      /\ \A i \in 1..Len(options) : VotesFor(votes, i - 1) <= x
            W == {i \in 1..Len(options) : VotesFor(votes, i - 1) = top}
        IN /\ votes # <<>>
              => (/\ r.winners = [k \in 1..Cardinality(W) |-> options[Kth(W, k)]]
                  /\ r.maxVotes = top
                  /\ r.verdict = IF Cardinality(W) = 1 THEN "winner" ELSE "tie")
           /\ (/\ options = <<"A", "B", "C">>
               /\ votes = <<<<"u1", 0>>, <<"u2", 1>>, <<"u3", 0>>, <<"u4", 1>>>>)
              => (/\ r.verdict = "tie"
                  /\ r.winners = <<"A", "B">>
                  /\ r.maxVotes = 2
                  /\ r.counts = <<2, 2, 0>>)

\* The tie of the example has been published.
C14_Witness ==
    /\ polls[1].options = <<"A", "B", "C">>
    /\ polls[1].votes = <<<<"u1", 0>>, <<"u2", 1>>, <<"u3", 0>>, <<"u4", 1>>>>
    /\ Len(published[1]) = 1
    /\ published[1][1].verdict = "tie"

(* C15.  A closure of a session whose ledger is empty reports "no votes    *)
(* cast" and names no winner and no tie, whatever the number of options.   *)
C15_EmptyLedgerNoVotes ==
    \A p \in DOMAIN polls : \A r \in Tallied(p) :
        polls[p].votes = <<>>
            => (/\ r.verdict = "noVotes"
                /\ r.winners = <<>>
                /\ r.maxVotes = 0)

\* A session with five options and no vote has been closed by its deadline.
C15_Witness ==
    /\ polls[1].votes = <<>>
    /\ Len(polls[1].options) = MaxOptions
    /\ polls[1].timeout = "fired"
    /\ Len(published[1]) = 1
    /\ published[1][1].verdict = "noVotes"

(* C16.  The tally of a closure has one count per option, in the order of  *)
(* the options; the count of option i is the number of voters whose entry  *)
(* in the ledger is i, so the counts add up to the size of the ledger.     *)
C16_TallyCountsVotes ==
    \A p \in DOMAIN polls : \A r \in Tallied(p) :
        LET options == polls[p].options
            votes == polls[p].votes
            RECURSIVE Sum(_)
            Sum(n) == IF n = 0 THEN 0 ELSE r.counts[n] + Sum(n - 1)
        IN /\ Len(r.counts) = Len(options)
           /\ \A i \in 1..Len(options) : r.counts[i] = VotesFor(votes, i - 1)
           /\ Sum(Len(r.counts)) = MapSize(votes)

\* A closure has tallied a ledger of four entries in which some option has
\* several votes and some option none.
C16_Witness ==
    /\ Len(published[1]) = 1
    /\ Len(polls[1].votes) = 4
    /\ \E i, j \in 1..Len(polls[1].options) :
          /\ published[1][1].counts[i] >= 2
          /\ published[1][1].counts[j] = 0

(* C17.  The results of a closure are a function of (options, votes): two *)
(* closures of sessions with equal options and equal ledgers build the     *)
(* same results, whatever the order in which the votes were entered and    *)
(* whatever else the two sessions hold.                                    *)
C17_ResultsFunctionOfLedger ==
    \A p, q \in DOMAIN polls : \A r \in Tallied(p) : \A t \in Tallied(q) :
        (/\ polls[p].options = polls[q].options
         /\ SameLedger(polls[p].votes, polls[q].votes))
            => r = t

(* C17, amended.  The counts, the verdict and the winners of a closure are *)
(* a function of (options, votes), whatever the order in which the votes   *)
(* were entered; the whole results are a function of (options, votes, size *)
(* of eligibleVoters): the participation figure is the one part that       *)
(* depends on the eligible set.                                            *)
C17_TallyFunctionOfLedger ==
    \A p, q \in DOMAIN polls : \A r \in Tallied(p) : \A t \in Tallied(q) :
        (/\ polls[p].options = polls[q].options
         /\ SameLedger(polls[p].votes, polls[q].votes))
            => (/\ r.counts = t.counts
                /\ r.verdict = t.verdict
                /\ r.winners = t.winners
                /\ r.maxVotes = t.maxVotes
                /\ Cardinality(polls[p].eligibleVoters)
                      = Cardinality(polls[q].eligibleVoters) => r = t)

\* Two sessions whose ledgers hold the same votes in different orders, and
\* whose eligible sets differ, have both been closed.
C17_Witness ==
    /\ DOMAIN polls = {1, 2}
    /\ Len(published[1]) = 1
    /\ Len(published[2]) = 1
    /\ Len(polls[1].votes) >= 2
    /\ polls[1].votes # polls[2].votes
    /\ SameLedger(polls[1].votes, polls[2].votes)
    /\ polls[1].eligibleVoters # polls[2].eligibleVoters
    /\ published[1][1].counts = published[2][1].counts

(* C18.  A closure reports participation exactly when the session's       *)
(* eligibleVoters set is not empty, and then as the pair (number of voters *)
(* in the ledger, size of eligibleVoters); with an empty set no            *)
(* participation figure is reported.                                       *)
C18_ParticipationWhenEnforced ==
    \A p \in DOMAIN polls : \A r \in Tallied(p) :
        /\ polls[p].eligibleVoters # {}
              => r.participation
                    = <<Cardinality(MapKeys(polls[p].votes)),
                        Cardinality(polls[p].eligibleVoters)>>
        /\ polls[p].eligibleVoters = {} => r.participation = <<>>

\* Options A,B with votes u1:0, u2:0, u3:1 under an enforced eligible set:
\* A wins with two votes and participation is 3 of N.
C18_Witness ==
    /\ polls[1].options = <<"A", "B">>
    /\ polls[1].votes = <<<<"u1", 0>>, <<"u2", 0>>, <<"u3", 1>>>>
    /\ polls[1].eligibleVoters # {}
    /\ Len(published[1]) = 1
    /\ published[1][1].winners = <<"A">>
    /\ published[1][1].maxVotes = 2
    /\ published[1][1].participation
          = <<3, Cardinality(polls[1].eligibleVoters)>>

(* C19.  When members.fetch() fails in a /vote, the session is created     *)
(* all the same, with an empty eligibleVoters set.  In a session with an   *)
(* empty eligibleVoters set that is in the store, every click is recorded  *)
(* in the ledger, and no click's handler starts a closure or touches the   *)
(* timer: only the deadline callback and /endpoll close it.                *)
C19_UnenforcedEligibility ==
    [][/\ (last'.op = "register" /\ used'.faults = used.faults + 1)
          => (/\ last'.fin = "returned"
              /\ last'.poll \in DOMAIN polls'
              /\ polls'[last'.poll].eligibleVoters = {}
              /\ polls'[last'.poll].votes = <<>>
              /\ polls'[last'.poll].timeout = "armed"
              /\ LET g == polls'[last'.poll].guild IN
                    /\ activePolls'[g] # NoBucket
                    /\ last'.poll \in buckets'[activePolls'[g]])
       /\ \A p \in DOMAIN polls :
             (polls[p].eligibleVoters = {} /\ last'.poll = p)
                => (/\ (last'.op = "collect" /\ Stored(p))
                       => (/\ last'.fin = "suspended"
                           /\ MapHas(polls'[p].votes, last'.user)
                           /\ voteTasks'[Len(voteTasks')].pc = "ack"
                           /\ MapGet(polls'[p].votes, last'.user)
                                 = voteTasks'[Len(voteTasks')].opt)
                    /\ last'.op \in {"collect", "ackResume", "rejectResume",
                                     "voteEndResume"}
                       => (/\ last'.op \in {"collect", "ackResume"}
                           /\ last'.op = "ackResume" => last'.fin # "suspended"
                           /\ polls'[p].timeout = polls[p].timeout
                           /\ UNCHANGED <<published, activePolls, buckets,
                                          timerTasks, endTasks>>))]_vars

(* C20.  The eligibleVoters set of a session is the one it was registered *)
(* with: no handler run (click, acknowledgement, deadline callback,        *)
(* /endpoll with or without a poll id) adds a member to it or removes one; *)
(* and it holds no bot.                                                    *)
C20_EligibleSetFixed ==
    [][/\ \A p \in DOMAIN polls :
             /\ p \in DOMAIN polls'
             /\ polls'[p].eligibleVoters = polls[p].eligibleVoters
       /\ \A p \in DOMAIN polls' :
             \A m \in polls'[p].eligibleVoters : ~IsBot(m)]_vars

\* A session registered from a member list with a bot in it has taken a vote
\* and has been closed by /endpoll; its eligible set is {u1, u2}.
C20_Witness ==
    /\ last.op = "endResume"
    /\ last.out = "ended"
    /\ polls[last.poll].eligibleVoters = {"u1", "u2"}
    /\ polls[last.poll].votes # <<>>
    /\ \A m \in MemberSnapshots : \E b \in m : IsBot(b)

C22_BadDurationRejected ==
    /\ \A i \in 1..Len(execs) : execs[i].duration > 0
    /\ \A p \in DOMAIN polls : polls[p].duration > 0

(* C23.  A removal that empties a guild's bucket deletes the guild's entry *)
(* from activePolls in the same run; and whenever no creation and no       *)
(* closure is in progress, no guild of activePolls has an empty bucket.    *)
C23_NoEmptyBucket ==
    [][/\ \A p \in DOMAIN polls :
             LET b == polls[p].serverPolls IN
             (p \in buckets[b] /\ p \notin buckets'[b] /\ buckets'[b] = {})
                => activePolls'[polls[p].guild] = NoBucket
       /\ Quiet'
             => \A g \in Guilds :
                   activePolls'[g] # NoBucket
                      => buckets'[activePolls'[g]] # {}]_vars

\* The only session of a guild has been closed and removed, nothing is in
\* progress, and the guild has no bucket.
C23_Witness ==
    /\ last.op \in {"timerResume", "voteEndResume", "endResume"}
    /\ last.fin = "returned"
    /\ published[last.poll] # <<>>
    /\ Quiet
    /\ activePolls[polls[last.poll].guild] = NoBucket
    /\ buckets[polls[last.poll].serverPolls] = {}

(* C24.  In every reachable state, every option index in a session's      *)
(* ledger is an integer from 0 to options.length - 1, every click being on *)
(* one of the buttons of that session's message.                           *)
C24_IndexWithinOptions ==
    \A p \in DOMAIN polls :
        \A j \in 1..Len(polls[p].votes) :
            /\ polls[p].votes[j][2] \in Int
            /\ polls[p].votes[j][2] >= 0
            /\ polls[p].votes[j][2] <= Len(polls[p].options) - 1

\* A ledger holds a vote for the first button and a vote for the last.
C24_Witness ==
    \E p \in DOMAIN polls :
        /\ Len(polls[p].votes) = 2
        /\ \E j \in 1..2 : polls[p].votes[j][2] = 0
        /\ \E j \in 1..2 : polls[p].votes[j][2] = Len(polls[p].options) - 1

(* C25.  Every accepted vote is followed by the full-participation check:  *)
(* when the acknowledgement of a vote resolves or rejects and the ledger   *)
(* holds every eligible voter, that handler goes on to lines 663-664       *)
(* (the timer is disarmed and endPoll is called) and does not end at the   *)
(* acknowledgement.                                                        *)
C25_CheckFollowsAcceptedVote ==
    [][\A i \in 1..Len(voteTasks) : \A ok \in BOOLEAN :
          (AckResume(i, ok) /\ EveryoneVoted(polls[voteTasks[i].poll]))
              => (/\ last'.fin # "threw"
                  /\ polls'[voteTasks[i].poll].timeout # "armed")]_vars

\* The latest acknowledgements of the voters of pollId who have no click
\* waiting for its acknowledgement.
SettledAcks(pollId) ==
    {a \in acked[pollId] :
        ~\E j \in 1..Len(voteTasks) :
            /\ voteTasks[j].poll = pollId
            /\ voteTasks[j].user = a[1]
            /\ voteTasks[j].pc = "ack"}

\* The number of voters whose acknowledgement in acks names option index i.
AckedFor(acks, i) == Cardinality({a \in acks : a[2] = i})

(* C26.  Every vote that was acknowledged to its voter as recorded is      *)
(* reflected in the published results: each results message of a session   *)
(* counts, for every option, at least the voters whose latest              *)
(* acknowledgement names that option (a voter with a click still waiting   *)
(* for its acknowledgement aside), also when the vote was handled while a  *)
(* closure of the session was suspended.                                   *)
C26_AcknowledgedVotesPublished ==
    \A p \in DOMAIN polls :
        \A k \in 1..Len(published[p]) :
            \A i \in 0..(Len(polls[p].options) - 1) :
                published[p][k].counts[i + 1] >= AckedFor(SettledAcks(p), i)

(* C27.  No per-option counts, winner or tie information about a session   *)
(* is emitted before a close trigger of that session has fired: while the  *)
(* deadline timer of a session is armed (it has not fired, and neither a   *)
(* completing vote nor /endpoll has cleared it) no results of the session  *)
(* have been built or posted; and a step of the vote handler posts no      *)
(* results unless it is the resumption of that handler's own endPoll, its  *)
(* outputs being the rejection and the acknowledgement, which names the    *)
(* option of the click it answers.                                         *)
C27_NoResultsBeforeTrigger ==
    [][/\ \A p \in DOMAIN polls' :
             polls'[p].timeout = "armed"
                => (published'[p] = <<>> /\ ClosuresInFlight(p)' = 0)
       /\ last'.op = "collect"
             => (/\ published' = published
                 /\ acked' = acked
                 /\ last'.out = "")
       /\ last'.op = "rejectResume"
             => (/\ published' = published
                 /\ acked' = acked
                 /\ last'.out \in {"", "notEligible"})
       /\ last'.op = "ackResume"
             => (/\ published' = published
                 /\ last'.out \in {"", "recorded"}
                 /\ \E i \in 1..Len(voteTasks) :
                       /\ voteTasks[i].pc = "ack"
                       /\ voteTasks[i].poll = last'.poll
                       /\ voteTasks[i].user = last'.user
                       /\ \A q \in DOMAIN acked :
                             acked'[q] \ acked[q]
                                \subseteq
                                  IF q = last'.poll
                                  THEN {<<last'.user, voteTasks[i].opt>>}
                                  ELSE {})]_vars

\* A vote has just been acknowledged in a session that is open: its timer
\* is armed, it is in the store and nothing of it has been published.
C27_Witness ==
    /\ last.op = "ackResume"
    /\ last.out = "recorded"
    /\ Stored(last.poll)
    /\ polls[last.poll].timeout = "armed"
    /\ <<last.user, 1>> \in acked[last.poll]
    /\ published[last.poll] = <<>>

\* The vote-handler runs of the click tasks: which session a step of the
\* handler belongs to.
VoteStepOn(p) ==
    \/ \E u \in Voters, c \in AllCustomIds : Collect(p, u, c)
    \/ \E i \in 1..Len(voteTasks), ok \in BOOLEAN :
          /\ voteTasks[i].poll = p
          /\ (RejectResume(i, ok) \/ AckResume(i, ok) \/ VoteEndResume(i, ok))

JoinInProgress(guildId) ==
    \E i \in 1..Len(joinTasks) : joinTasks[i].guild = guildId

LeaveInProgress(guildId) ==
    \E i \in 1..Len(leaveTasks) : leaveTasks[i].guild = guildId

(* C29.  Under any interleaving of the join and leave handlers of a guild, *)
(* with every call to the backend and to the chat platform resolving:      *)
(* when a user has a row in standupUsers and neither a join nor a leave of *)
(* the guild is suspended, both jobs of the guild are in scheduledJobs.    *)
C29_JobsWhileOptedIn ==
    \A g \in Guilds, u \in Members :
        (/\ standupUsed.faults = 0
         /\ GetStandupUser(standupUsers, g, u)
         /\ ~JoinInProgress(g)
         /\ ~LeaveInProgress(g))
            => JobKeys(g) \subseteq scheduledJobs

(* C29, second half.  A step that takes a job of a guild out of            *)
(* scheduledJobs leaves no user of that guild with a row in standupUsers.  *)
C29_JobsRemovedOnlyWhenEmpty ==
    [][\A g \in Guilds :
          (JobKeys(g) \cap scheduledJobs' # JobKeys(g) \cap scheduledJobs)
             => (\/ JobKeys(g) \subseteq scheduledJobs'
                 \/ GetStandupUsers(standupUsers', g) = {})]_vars

\* The calls of submitStandupResponse made by run id.
RunRecords(id) == {j \in 1..Len(submitted) : submitted[j].run = id}

\* Run id of collectStandupResponses has started and is over.
RunOver(id) ==
    /\ id \in 1..standupUsed.runs
    /\ \A i \in 1..Len(dmTasks) : dmTasks[i].id # id

\* A run that is at question k holds the answers to the k - 1 questions
\* before it and has submitted nothing; a run past its last question holds
\* three answers and has submitted one record, with the answers in the
\* fields done, doing, blockers in the order of the questions.
QuestionsInOrder ==
    \A i \in 1..Len(dmTasks) :
        LET t == dmTasks[i]
            field(k) == IF t.responses[k] = "" THEN "No response"
                        ELSE t.responses[k]
        IN IF t.pc \in {"ask", "wait"}
           THEN /\ t.k \in 1..Len(Questions)
                /\ Len(t.responses) = t.k - 1
                /\ RunRecords(t.id) = {}
           ELSE /\ Len(t.responses) = Len(Questions)
                /\ \E j \in 1..Len(submitted) :
                      /\ RunRecords(t.id) = {j}
                      /\ submitted[j].userId = t.user
                      /\ submitted[j].guildId = t.guild
                      /\ submitted[j].done = field(1)
                      /\ submitted[j].doing = field(2)
                      /\ submitted[j].blockers = field(3)

\* A wait that times out pushes the default and the run goes on with the
\* next question, or with the submission after the last one.
TimeoutContinues ==
    \A i \in 1..Len(dmTasks), ok \in BOOLEAN :
        AwaitMessages(i, "timeout", ok)
            => (/\ dmTasks'[i].responses
                      = Append(dmTasks[i].responses, "No response (timed out)")
                /\ IF dmTasks[i].k < Len(Questions)
                   THEN /\ dmTasks'[i].pc = "ask"
                        /\ dmTasks'[i].k = dmTasks[i].k + 1
                   ELSE dmTasks'[i].pc = "submit")

(* C30.  The standup DM collection asks its three questions strictly in    *)
(* order; a step that times out records the default value and the run      *)
(* continues with the next question; every run that is over has submitted  *)
(* exactly one record, with the fields done, doing, blockers in question   *)
(* order.                                                                  *)
C30_OneRecordInQuestionOrder ==
    [][/\ TimeoutContinues
       /\ QuestionsInOrder'
       /\ \A id \in 1..MaxRuns :
             RunOver(id)' => Cardinality(RunRecords(id)') = 1]_vars

\* The same with no rejected call: the order, the defaults and the single
\* record of every run that every send has reached.
C30_WhenEverySendResolves ==
    [][/\ TimeoutContinues
       /\ QuestionsInOrder'
       /\ \A id \in 1..MaxRuns :
             (RunOver(id)' /\ standupUsed'.faults = 0)
                => Cardinality(RunRecords(id)') = 1]_vars

\* The documents of table standupUsers of one guild and user, and of
\* table standupResponses of one guild, user and date, are at most one.
UniqueDocuments ==
    /\ \A g \in Guilds, u \in Members :
          Cardinality(ByGuildAndUser(db, g, u)) <= 1
    /\ \A g \in Guilds, u \in Members, d \in Dates :
          Cardinality(ByGuildUserDate(db, g, u, d)) <= 1

\* The rows the command handlers read are the keys of the documents.
RowsAreDocumentKeys ==
    standupUsers = {<<u.guildId, u.userId>> : u \in db.standupUsers}

\* A table apart from the documents of one index range.
OtherUsers(d, guildId, userId) ==
    d.standupUsers \ ByGuildAndUser(d, guildId, userId)

OtherResponses(d, guildId, userId, date) ==
    d.standupResponses \ ByGuildUserDate(d, guildId, userId, date)

\* addStandupUser for a user who has a document: the document keeps its id
\* and takes the channel, no document is added, no other one is touched.
RepeatedAddUpdates ==
    \A u \in Members, g \in Guilds, c \in ChannelIds :
       (AddStandupUserMutation(u, g, c) /\ ByGuildAndUser(db, g, u) # {})
          => /\ ByGuildAndUser(db', g, u) =
                   {[First(ByGuildAndUser(db, g, u)) EXCEPT !.channelId = c]}
             /\ OtherUsers(db', g, u) = OtherUsers(db, g, u)
             /\ db'.standupResponses = db.standupResponses
             /\ db'.ids = db.ids

\* submitStandupResponse for a guild, user and date that have a document:
\* the document keeps its id and takes the answers, no document is added.
RepeatedSubmitUpdates ==
    \A u \in Members, g \in Guilds, d \in Dates, a \in Answers :
       (SubmitStandupResponseMutation(u, g, d, a)
           /\ ByGuildUserDate(db, g, u, d) # {})
          => /\ \E r \in db.standupResponses :
                   ByGuildUserDate(db', g, u, d) =
                      {[r EXCEPT !.done = a[1], !.doing = a[2],
                                 !.blockers = a[3], !.submittedAt = Now]}
             /\ OtherResponses(db', g, u, d) = OtherResponses(db, g, u, d)
             /\ db'.standupUsers = db.standupUsers
             /\ db'.ids = db.ids

\* removeStandupUser for a user without a document: the failure value is
\* answered and the tables stay as they are.
RemoveAbsentFails ==
    \A u \in Members, g \in Guilds :
       (RemoveStandupUserMutation(u, g) /\ ByGuildAndUser(db, g, u) = {})
          => /\ last'.out = "User not found"
             /\ db' = db

\* C31: after any sequence of addStandupUser, removeStandupUser and
\* submitStandupResponse, each run as one transaction, table standupUsers
\* holds at most one document per guild and user and table
\* standupResponses at most one per guild, user and date; an add or a
\* submit for a key that has a document updates that document and inserts
\* none; a remove for a user without a document answers the failure value
\* and changes nothing.
C31_OneDocumentPerKey ==
    [][/\ UniqueDocuments /\ UniqueDocuments'
       /\ RepeatedAddUpdates
       /\ RepeatedSubmitUpdates
       /\ RemoveAbsentFails]_vars

\* The removal of a user without a document was answered first (nothing
\* was inserted before the clock read 2), then the user was added, then
\* added again: the second add was answered by the patch.
C31_Witness ==
    /\ last.op = "addStandupUser"
    /\ last.out = "null"
    /\ dbUsed.mutations = 3
    /\ db.standupResponses = {}
    /\ \E u \in db.standupUsers : u.id = 1 /\ u.joinedAt = 2

====
